---------------------------- MODULE Spec2Model ----------------------------
(***************************************************************************)
(* The PIDIM SMART dashboard front end (frontend/src/App.jsx, v2 with the  *)
(* custom month filter): the data loader useReports, the table renderer    *)
(* DataTable, the chart mappers of App and the month filter                *)
(* (applyLoanMonth / clearLoanMonth).                                      *)
(*                                                                         *)
(* JavaScript values are tagged records, so that values of different       *)
(* JavaScript types can be compared.  A string is the sequence of its      *)
(* characters: endsWith, Number(...) and toLocaleString work on the        *)
(* characters.                                                             *)
(***************************************************************************)
EXTENDS Integers, Sequences, FiniteSets, TLC

(***************************************************************************)
(* Bounds of the model.                                                    *)
(***************************************************************************)
\* longest row sequence handed to the renderer in RenderSpec
MaxRows == 2
\* number of month-filter requests issued in one run of Spec
MaxReqs == 2

(***************************************************************************)
(* JavaScript scalar values.                                               *)
(***************************************************************************)
Undefined == [t |-> "undefined", n |-> 0, s |-> <<>>]
Null == [t |-> "null", n |-> 0, s |-> <<>>]
NaN == [t |-> "NaN", n |-> 0, s |-> <<>>]
Num(k) == [t |-> "number", n |-> k, s |-> <<>>]
Str(cs) == [t |-> "string", n |-> 0, s |-> cs]

\* typeof v === 'number'  (NaN is a number too)
IsNumber(v) == v.t \in {"number", "NaN"}

\* JavaScript truthiness: undefined, null, NaN, 0 and "" are falsy
Truthy(v) ==
    CASE v.t = "number" -> v.n /= 0
      [] v.t = "string" -> Len(v.s) > 0
      [] OTHER -> FALSE

\* a ?? b
Coalesce(a, b) == IF a.t \in {"undefined", "null"} THEN b ELSE a

\* a || b
OrElse(a, b) == IF Truthy(a) THEN a ELSE b

(***************************************************************************)
(* Decimal digits.                                                         *)
(***************************************************************************)
DigitChars == <<"0", "1", "2", "3", "4", "5", "6", "7", "8", "9">>

DigitChar(d) == DigitChars[d + 1]

IsDigit(c) == \E d \in 0..9 : DigitChars[d + 1] = c

DigitVal(c) == CHOOSE d \in 0..9 : DigitChars[d + 1] = c

\* the decimal digits of a natural number, most significant first
RECURSIVE Digits(_)
Digits(k) == IF k < 10 THEN <<DigitChar(k)>> ELSE Append(Digits(k \div 10), DigitChar(k % 10))

\* the number a sequence of digits denotes
RECURSIVE DigitsVal(_)
DigitsVal(cs) ==
    IF Len(cs) = 0 THEN 0
    ELSE 10 * DigitsVal(SubSeq(cs, 1, Len(cs) - 1)) + DigitVal(cs[Len(cs)])

\* String(v)
String(v) ==
    CASE v.t = "string" -> v.s
      [] v.t = "number" -> Digits(v.n)
      [] v.t = "NaN" -> <<"N", "a", "N">>
      [] v.t = "null" -> <<"n", "u", "l", "l">>
      [] OTHER -> <<"u", "n", "d", "e", "f", "i", "n", "e", "d">>

\* Number(v): undefined is NaN, null is 0, "" is 0, a digit string is its
\* value, any other string is NaN
Number(v) ==
    CASE v.t = "number" -> v
      [] v.t = "null" -> Num(0)
      [] v.t = "string" ->
            IF \A i \in 1..Len(v.s) : IsDigit(v.s[i]) THEN Num(DigitsVal(v.s)) ELSE NaN
      [] OTHER -> NaN

\* cs.endsWith(suffix)
EndsWith(cs, suffix) ==
    /\ Len(cs) >= Len(suffix)
    /\ SubSeq(cs, Len(cs) - Len(suffix) + 1, Len(cs)) = suffix

\* Number.prototype.toLocaleString for a natural number, grouping the
\* digits in threes (the en-US form)
RECURSIVE Grouped(_)
Grouped(ds) ==
    IF Len(ds) <= 3 THEN ds
    ELSE Grouped(SubSeq(ds, 1, Len(ds) - 3)) \o <<",">> \o SubSeq(ds, Len(ds) - 2, Len(ds))

\* v.toLocaleString(): a number is grouped, a string is itself
ToLocaleString(v) == IF v.t = "number" THEN Str(Grouped(Digits(v.n))) ELSE Str(String(v))

\* function NumberFmt(n){ return (n??0).toLocaleString() }
NumberFmt(n) == ToLocaleString(Coalesce(n, Num(0)))

(***************************************************************************)
(* Strings of the program and of the data.                                 *)
(***************************************************************************)
SpaceTotal == <<" ", "T", "o", "t", "a", "l">>
GrandTotalName == <<"G", "r", "a", "n", "d", " ", "T", "o", "t", "a", "l">>
MonthPrefix == <<"M", "o", "n", "t", "h", ":", " ">>


(***************************************************************************)
(* Report rows and column descriptors.  A row maps field names to values;  *)
(* reading a field the row does not have gives undefined.                  *)
(***************************************************************************)
Get(r, k) == IF k \in DOMAIN r THEN r[k] ELSE Undefined

Col(k, tot, fmt) == [key |-> k, header |-> k, total |-> tot, format |-> fmt]

LoanColumns ==
    << Col("Sl No", FALSE, FALSE), Col("Branch Name", FALSE, FALSE),
       Col("Types of Loan", FALSE, FALSE), Col("# of Loan", TRUE, TRUE),
       Col("Amount of Loan", TRUE, TRUE) >>

PoultryColumns ==
    << Col("Sl No", FALSE, FALSE), Col("Branch Name", FALSE, FALSE),
       Col("Types of Poultry Rearing", FALSE, FALSE), Col("# of MEs", TRUE, TRUE),
       Col("# of Birds", TRUE, TRUE) >>

GrantsColumns ==
    << Col("Sl No", FALSE, FALSE), Col("Branch Name", FALSE, FALSE),
       Col("Number on MEs", TRUE, TRUE), Col("Amounts of Grants", TRUE, TRUE) >>

(***************************************************************************)
(* JavaScript array-valued slots: an array of rows, undefined or null.     *)
(***************************************************************************)
JsArray(a) == [t |-> "array", a |-> a]
NoArray == [t |-> "undefined", a |-> <<>>]
NullArray == [t |-> "null", a |-> <<>>]

IsArray(x) == x.t = "array"

(***************************************************************************)
(* DataTable                                                               *)
(***************************************************************************)
\* Faulty variant of Reduce: only values of type number are added, a numeric
\* string counts as 0.
RECURSIVE Reduce_NumbersOnly(_, _, _, _)
Reduce_NumbersOnly(rows, key, i, s) ==
    IF i > Len(rows) THEN s
    ELSE Reduce_NumbersOnly(rows, key, i + 1,
             s + (IF Get(rows[i], key).t = "number" THEN Get(rows[i], key).n ELSE 0))

\* rows.reduce((s,r)=> s + (Number(r[c.key])||0), 0), from row i on
RECURSIVE Reduce(_, _, _, _)
Reduce(rows, key, i, s) ==
    IF i > Len(rows) THEN s
    ELSE Reduce(rows, key, i + 1, s + OrElse(Number(Get(rows[i], key)), Num(0)).n)

\* the keys the totals object gets: columns with total set whose value in
\* the first row is of type number
TotalKeys(rows, columns) ==
    { columns[i].key : i \in { j \in 1..Len(columns) :
          columns[j].total /\ IsNumber(Get(rows[1], columns[j].key)) } }

\* const totals = useMemo(...)
Totals(rows, columns) ==
    [k \in TotalKeys(rows, columns) |-> Num(Reduce(rows, k, 1, 0))]

\* totals[c.key]
TotalOf(totals, k) == IF k \in DOMAIN totals THEN totals[k] ELSE Undefined

\* the style of a body row
RowStyle(r) ==
    [ background |->
          IF EndsWith(String(Get(r, "Branch Name")), SpaceTotal) THEN "#fffbe6"
          ELSE IF Get(r, "Branch Name") = Str(GrandTotalName) THEN "#dcfce7"
          ELSE "undefined",
      fontWeight |->
          IF Get(r, "Branch Name") = Str(GrandTotalName) THEN "800" ELSE "undefined" ]

\* c.format ? c.format(v) : v
Cell(c, v) == IF c.format THEN NumberFmt(v) ELSE v

BodyRow(r, columns) ==
    [ style |-> RowStyle(r),
      cells |-> [i \in 1..Len(columns) |-> Cell(columns[i], Get(r, columns[i].key))] ]

\* the tfoot: present when showFooterTotals and the totals object has a key
Footer(rows, columns, showFooterTotals) ==
    LET totals == Totals(rows, columns)
    IN  IF showFooterTotals /\ Cardinality(DOMAIN totals) /= 0
        THEN [ present |-> TRUE,
               cells |-> [i \in 1..Len(columns) |->
                            IF columns[i].total
                            THEN Cell(columns[i], TotalOf(totals, columns[i].key))
                            ELSE Str(<<>>)] ]
        ELSE [ present |-> FALSE, cells |-> <<>> ]

\* what DataTable returns
DataTable(rows, columns, subtitle, showFooterTotals) ==
    IF ~IsArray(rows) \/ Len(rows.a) = 0
    THEN [ kind |-> "No data", subtitle |-> Undefined, body |-> <<>>,
           foot |-> [present |-> FALSE, cells |-> <<>>] ]
    ELSE [ kind |-> "table", subtitle |-> subtitle,
           body |-> [i \in 1..Len(rows.a) |-> BodyRow(rows.a[i], columns)],
           foot |-> Footer(rows.a, columns, showFooterTotals) ]

\* the number of hooks one render of DataTable calls: the early return
\* comes before its only hook, useMemo
HooksCalled(rows) == IF ~IsArray(rows) \/ Len(rows.a) = 0 THEN 0 ELSE 1

(***************************************************************************)
(* Chart mappers of App                                                    *)
(***************************************************************************)
\* Faulty variant of LoanBase: subtotal rows are kept.
LoanBase_KeepsSubtotals(loanRows) ==
    LET Keep(r) ==
            /\ Get(r, "Branch Name") /= Str(GrandTotalName)
            /\ Truthy(Get(r, "Types of Loan"))
    IN  SelectSeq(loanRows, Keep)

LoanBase(loanRows) ==
    LET Keep(r) ==
            /\ ~EndsWith(String(Get(r, "Branch Name")), SpaceTotal)
            /\ Get(r, "Branch Name") /= Str(GrandTotalName)
            /\ Truthy(Get(r, "Types of Loan"))
    IN  SelectSeq(loanRows, Keep)

LoanChartData(loanRows) ==
    LET base == LoanBase(loanRows)
    IN  [i \in 1..Len(base) |->
            [ branch |-> Get(base[i], "Branch Name"),
              type |-> Get(base[i], "Types of Loan"),
              value |-> Number(OrElse(Get(base[i], "Amount of Loan"), Num(0))) ]]

BirdsBase(poultry) ==
    LET Keep(r) == Get(r, "Branch Name") /= Str(GrandTotalName)
    IN  SelectSeq(poultry, Keep)

BirdsChartData(poultry) ==
    LET base == BirdsBase(poultry)
    IN  [i \in 1..Len(base) |->
            [ branch |-> Get(base[i], "Branch Name"),
              type |-> Get(base[i], "Types of Poultry Rearing"),
              value |-> Number(OrElse(Get(base[i], "# of Birds"), Num(0))) ]]

GrantsBase(grants) ==
    LET Keep(r) == Get(r, "Branch Name") /= Str(GrandTotalName)
    IN  SelectSeq(grants, Keep)

GrantsChartData(grants) ==
    LET base == GrantsBase(grants)
    IN  [i \in 1..Len(base) |->
            [ branch |-> Get(base[i], "Branch Name"),
              type |-> Undefined,
              value |-> Number(OrElse(Get(base[i], "Amounts of Grants"), Num(0))) ]]

(***************************************************************************)
(* State.                                                                  *)
(***************************************************************************)
VARIABLES
    data,            \* useReports: the data state {loan, poultry, grants}
    loading,         \* useReports: the loading state
    fixedFetch,      \* the /reports/fixed promise: pending, fulfilled, rejected
    fixedResp,       \* history: the body /reports/fixed answered with
    loanCustomRows,  \* App: the override rows, or null
    loanMonth,       \* App: the month selector's value
    loanMonthLabel,  \* App: the label of the applied month
    requests,        \* the /reports/loan requests issued, in issue order, each
                     \* with its status and, once fulfilled, its answer
    lastEvt,         \* history: the last month-filter event processed
    cleared,         \* history: clear has run and the filter was not used since
    mounted,         \* the React tree is mounted (no render has thrown)
    hooks,           \* per DataTable instance: hooks called by its last render
    tReport,         \* RenderSpec: the report whose panel is rendered
    tRows,           \* RenderSpec: the rows handed to the panel
    tOut,            \* RenderSpec: what the panel rendered
    tPc              \* RenderSpec: input, rendered

appVars ==
    << data, loading, fixedFetch, fixedResp, loanCustomRows, loanMonth,
       loanMonthLabel, requests, lastEvt, cleared, mounted, hooks >>

renderVars == << tReport, tRows, tOut, tPc >>

vars ==
    << data, loading, fixedFetch, fixedResp, loanCustomRows, loanMonth,
       loanMonthLabel, requests, lastEvt, cleared, mounted, hooks, tReport, tRows, tOut, tPc >>

(***************************************************************************)
(* Data the backend may answer with.                                       *)
(***************************************************************************)
BranchA == <<"A">>
BranchATotal == <<"A", " ", "T", "o", "t", "a", "l">>
BranchB == <<"B">>
TypeX == <<"x">>
May2024 == <<"M", "a", "y", " ", "2", "0", "2", "4">>
Jun2024 == <<"J", "u", "n", " ", "2", "0", "2", "4">>
Month05 == <<"2", "0", "2", "4", "-", "0", "5">>

LoanRow(b, ty, c, a) ==
    [k \in {"Branch Name", "Types of Loan", "# of Loan", "Amount of Loan"} |->
        CASE k = "Branch Name" -> b
          [] k = "Types of Loan" -> ty
          [] k = "# of Loan" -> c
          [] OTHER -> a]

PoultryRow(b, ty, c, a) ==
    [k \in {"Branch Name", "Types of Poultry Rearing", "# of MEs", "# of Birds"} |->
        CASE k = "Branch Name" -> b
          [] k = "Types of Poultry Rearing" -> ty
          [] k = "# of MEs" -> c
          [] OTHER -> a]

GrantsRow(b, c, a) ==
    [k \in {"Branch Name", "Number on MEs", "Amounts of Grants"} |->
        CASE k = "Branch Name" -> b
          [] k = "Number on MEs" -> c
          [] OTHER -> a]

\* the fixed loan rows: a branch row, its subtotal and the grand total
FixedLoanRows ==
    << LoanRow(Str(BranchA), Str(TypeX), Num(2), Num(600)),
       LoanRow(Str(BranchATotal), Undefined, Num(2), Num(600)),
       LoanRow(Str(GrandTotalName), Undefined, Num(2), Num(600)) >>

FixedPoultryRows ==
    << PoultryRow(Str(BranchA), Str(TypeX), Num(3), Num(700)),
       PoultryRow(Str(GrandTotalName), Undefined, Num(3), Num(700)) >>

FixedGrantsRows ==
    << GrantsRow(Str(BranchA), Num(1), Num(500)),
       GrantsRow(Str(GrandTotalName), Num(1), Num(500)) >>

MayLoanRows == << LoanRow(Str(BranchA), Str(TypeX), Num(1), Num(300)) >>

JuneLoanRows ==
    << LoanRow(Str(BranchB), Str(TypeX), Num(1), Num(400)),
       LoanRow(Str(GrandTotalName), Undefined, Num(1), Num(400)) >>

\* bodies of GET /reports/fixed: each key holds an array or is omitted
FixedResponses ==
    [ loan : {NoArray, JsArray(<<>>), JsArray(FixedLoanRows)},
      poultry : {NoArray, JsArray(<<>>), JsArray(FixedPoultryRows)},
      grants : {NoArray, JsArray(<<>>), JsArray(FixedGrantsRows)} ]

\* bodies of GET /reports/loan: rows and month_label may each be omitted
LoanResponses ==
    { [rows |-> JsArray(MayLoanRows), month_label |-> Str(May2024)],
      [rows |-> JsArray(JuneLoanRows), month_label |-> Str(Jun2024)],
      [rows |-> JsArray(<<>>), month_label |-> Str(May2024)],
      [rows |-> NoArray, month_label |-> Undefined] }

\* values of the month input
Months == { <<>>, Month05 }

(***************************************************************************)
(* What App renders.                                                       *)
(***************************************************************************)
\* Faulty variant of LoanRows: an empty override falls back to the fixed rows
\* (loanCustomRows?.length ? loanCustomRows : loan).
LoanRows_EmptyFallsBack(d, custom) ==
    IF IsArray(custom) /\ Len(custom.a) > 0 THEN custom ELSE d.loan

\* const loanRows = loanCustomRows ?? loan
LoanRows(d, custom) == IF custom.t \in {"undefined", "null"} THEN d.loan ELSE custom

\* subtitle={loanMonthLabel ? `Month: ${loanMonthLabel}` : undefined}
Subtitle(label) == IF Len(label) > 0 THEN Str(MonthPrefix \o label) ELSE Undefined

\* the body of App throws a TypeError when it calls .filter on a value
\* that is not an array
AppThrows(d, custom) ==
    \/ ~IsArray(LoanRows(d, custom))
    \/ ~IsArray(d.poultry)
    \/ ~IsArray(d.grants)

\* React's check of the hooks of a mounted component: an update render that
\* calls hooks must call as many as the render before it did; a render
\* after one that called none is treated as a first render
HookMismatch(prev, cur) == prev > 0 /\ cur > 0 /\ cur /= prev

\* the hooks each DataTable calls when App renders its panels
PanelHooks(d, custom) ==
    [ loan |-> HooksCalled(LoanRows(d, custom)),
      poultry |-> HooksCalled(d.poultry),
      grants |-> HooksCalled(d.grants) ]

\* one render of the tree throws
RenderThrows(d, ld, custom, prev) ==
    /\ ~ld
    /\ \/ AppThrows(d, custom)
       \/ \E p \in {"loan", "poultry", "grants"} :
              HookMismatch(prev[p], PanelHooks(d, custom)[p])

\* the panels and charts App returns once loading is false
AppPanels(d, custom, label) ==
    [ clearButton |-> IsArray(custom),
      loan |-> DataTable(LoanRows(d, custom), LoanColumns, Subtitle(label), FALSE),
      loanChart |-> LoanChartData(LoanRows(d, custom).a),
      poultry |-> DataTable(d.poultry, PoultryColumns, Undefined, TRUE),
      birdsChart |-> BirdsChartData(d.poultry.a),
      grants |-> DataTable(d.grants, GrantsColumns, Undefined, TRUE),
      grantsChart |-> GrantsChartData(d.grants.a) ]

\* what is on the screen: nothing after a render threw (React unmounts the
\* tree), the loading placeholder, or the panels
Screen ==
    IF ~mounted THEN "error" ELSE IF loading THEN "Loading..." ELSE "panels"

Panels == AppPanels(data, loanCustomRows, loanMonthLabel)

\* the loan panel and the data of the loan chart
LoanPanel ==
    DataTable(LoanRows(data, loanCustomRows), LoanColumns, Subtitle(loanMonthLabel), FALSE)

LoanChart == LoanChartData(LoanRows(data, loanCustomRows).a)

\* React renders the tree after a state change
Commit(d, ld, custom) ==
    /\ mounted' = ~RenderThrows(d, ld, custom, hooks)
    /\ hooks' = IF ld \/ RenderThrows(d, ld, custom, hooks) THEN hooks
                ELSE PanelHooks(d, custom)

(***************************************************************************)
(* Initial state: App has mounted, useReports has issued its fetch.        *)
(***************************************************************************)
NoResp == [rows |-> NoArray, month_label |-> Undefined]

NoEvt == [kind |-> "none", id |-> 0, resp |-> NoResp]

NoOut ==
    [ table |-> DataTable(NoArray, <<>>, Undefined, FALSE), chart |-> <<>> ]

AppInit ==
    /\ data = [loan |-> JsArray(<<>>), poultry |-> JsArray(<<>>), grants |-> JsArray(<<>>)]
    /\ loading = TRUE
    /\ fixedFetch = "pending"
    /\ fixedResp = [loan |-> NoArray, poultry |-> NoArray, grants |-> NoArray]
    /\ loanCustomRows = NullArray
    /\ loanMonth = <<>>
    /\ loanMonthLabel = <<>>
    /\ requests = <<>>
    /\ lastEvt = NoEvt
    /\ cleared = FALSE
    /\ mounted = TRUE
    /\ hooks = [loan |-> 0, poultry |-> 0, grants |-> 0]

Init ==
    /\ AppInit
    /\ tReport = "loan"
    /\ tRows = <<>>
    /\ tOut = NoOut
    /\ tPc = "input"

(***************************************************************************)
(* useReports: fetch(...).then(r=>r.json()).then(setData)                  *)
(*                        .finally(()=>setLoading(false))                  *)
(***************************************************************************)
\* the response arrived and decoded: setData(body)
FetchFulfilled(body) ==
    /\ mounted
    /\ fixedFetch = "pending"
    /\ fixedFetch' = "fulfilled"
    /\ fixedResp' = body
    /\ data' = body
    /\ Commit(body, loading, loanCustomRows)
    /\ UNCHANGED << loading, loanCustomRows, loanMonth, loanMonthLabel, requests, lastEvt,
                    cleared >>
    /\ UNCHANGED renderVars

\* the fetch or the decoding rejected: setData is skipped
FetchRejected ==
    /\ mounted
    /\ fixedFetch = "pending"
    /\ fixedFetch' = "rejected"
    /\ Commit(data, loading, loanCustomRows)
    /\ UNCHANGED << data, fixedResp, loading, loanCustomRows, loanMonth, loanMonthLabel,
                    requests, lastEvt, cleared >>
    /\ UNCHANGED renderVars

\* Faulty variant of FetchFinally: .then(()=>setLoading(false)) in place of
\* .finally, which a rejection skips.
FetchFinally_OnlyOnSuccess ==
    /\ mounted
    /\ fixedFetch = "fulfilled"
    /\ loading
    /\ loading' = FALSE
    /\ Commit(data, FALSE, loanCustomRows)
    /\ UNCHANGED << data, fixedFetch, fixedResp, loanCustomRows, loanMonth, loanMonthLabel,
                    requests, lastEvt, cleared >>
    /\ UNCHANGED renderVars

\* .finally(()=>setLoading(false)), after either outcome
FetchFinally ==
    /\ mounted
    /\ fixedFetch \in {"fulfilled", "rejected"}
    /\ loading
    /\ loading' = FALSE
    /\ Commit(data, FALSE, loanCustomRows)
    /\ UNCHANGED << data, fixedFetch, fixedResp, loanCustomRows, loanMonth, loanMonthLabel,
                    requests, lastEvt, cleared >>
    /\ UNCHANGED renderVars

(***************************************************************************)
(* The month filter.  Its controls exist only once App renders its panels. *)
(***************************************************************************)
\* onChange={e=>setLoanMonth(e.target.value)}
SetLoanMonth(m) ==
    /\ mounted /\ ~loading
    /\ m /= loanMonth
    /\ loanMonth' = m
    /\ cleared' = FALSE
    /\ Commit(data, loading, loanCustomRows)
    /\ UNCHANGED << data, loading, fixedFetch, fixedResp, loanCustomRows, loanMonthLabel,
                    requests, lastEvt >>
    /\ UNCHANGED renderVars

\* applyLoanMonth up to its await: the request leaves with the month of
\* the selector, if it has one
applyLoanMonth ==
    /\ mounted /\ ~loading
    /\ Len(requests) < MaxReqs
    /\ requests' = Append(requests,
                     [ month |-> IF Len(loanMonth) > 0 THEN Str(loanMonth) ELSE Undefined,
                       status |-> "pending", resp |-> NoResp ])
    /\ cleared' = FALSE
    /\ UNCHANGED << data, loading, fixedFetch, fixedResp, loanCustomRows, loanMonth,
                    loanMonthLabel, lastEvt, mounted, hooks >>
    /\ UNCHANGED renderVars

\* resp.rows || []
RowsOrEmpty(resp) == IF IsArray(resp.rows) THEN resp.rows ELSE JsArray(<<>>)

\* resp.month_label || ""
LabelOrEmpty(resp) == OrElse(resp.month_label, Str(<<>>)).s

\* Faulty variant of ApplyFulfilled: the answer to a request that is not the
\* last one issued is dropped.
ApplyFulfilled_DropsStale(i, resp) ==
    /\ mounted
    /\ requests[i].status = "pending"
    /\ requests' = [requests EXCEPT ![i].status = "fulfilled", ![i].resp = resp]
    /\ loanCustomRows' = IF i = Len(requests) THEN RowsOrEmpty(resp) ELSE loanCustomRows
    /\ loanMonthLabel' = IF i = Len(requests) THEN LabelOrEmpty(resp) ELSE loanMonthLabel
    /\ lastEvt' = [kind |-> "fulfilled", id |-> i, resp |-> resp]
    /\ Commit(data, loading, IF i = Len(requests) THEN RowsOrEmpty(resp) ELSE loanCustomRows)
    /\ UNCHANGED << data, loading, fixedFetch, fixedResp, loanMonth, cleared >>
    /\ UNCHANGED renderVars

\* applyLoanMonth after its await, request i answered with resp:
\* setLoanCustomRows(resp.rows || []); setLoanMonthLabel(resp.month_label || "")
ApplyFulfilled(i, resp) ==
    /\ mounted
    /\ requests[i].status = "pending"
    /\ requests' = [requests EXCEPT ![i].status = "fulfilled", ![i].resp = resp]
    /\ loanCustomRows' = RowsOrEmpty(resp)
    /\ loanMonthLabel' = LabelOrEmpty(resp)
    /\ lastEvt' = [kind |-> "fulfilled", id |-> i, resp |-> resp]
    /\ Commit(data, loading, RowsOrEmpty(resp))
    /\ UNCHANGED << data, loading, fixedFetch, fixedResp, loanMonth, cleared >>
    /\ UNCHANGED renderVars

\* Faulty variant of ApplyRejected: the catch block only logs, the rows and
\* the label on display stay.
ApplyRejected_KeepsRows(i) ==
    /\ mounted
    /\ requests[i].status = "pending"
    /\ requests' = [requests EXCEPT ![i].status = "rejected"]
    /\ lastEvt' = [kind |-> "rejected", id |-> i, resp |-> NoResp]
    /\ Commit(data, loading, loanCustomRows)
    /\ UNCHANGED << data, loading, fixedFetch, fixedResp, loanMonth, cleared,
                    loanCustomRows, loanMonthLabel >>
    /\ UNCHANGED renderVars

\* the catch block of applyLoanMonth, request i failed (the fetch or the
\* decoding rejected, or the body was no object and resp.rows threw; in
\* each case before any setter of the try block):
\* setLoanCustomRows(null); setLoanMonthLabel("")
ApplyRejected(i) ==
    /\ mounted
    /\ requests[i].status = "pending"
    /\ requests' = [requests EXCEPT ![i].status = "rejected"]
    /\ loanCustomRows' = NullArray
    /\ loanMonthLabel' = <<>>
    /\ lastEvt' = [kind |-> "rejected", id |-> i, resp |-> NoResp]
    /\ Commit(data, loading, NullArray)
    /\ UNCHANGED << data, loading, fixedFetch, fixedResp, loanMonth, cleared >>
    /\ UNCHANGED renderVars

\* clearLoanMonth; its button is rendered while loanCustomRows is truthy
clearLoanMonth ==
    /\ mounted /\ ~loading
    /\ IsArray(loanCustomRows)
    /\ loanMonth' = <<>>
    /\ loanCustomRows' = NullArray
    /\ loanMonthLabel' = <<>>
    /\ lastEvt' = [kind |-> "clear", id |-> 0, resp |-> NoResp]
    /\ cleared' = TRUE
    /\ Commit(data, loading, NullArray)
    /\ UNCHANGED << data, loading, fixedFetch, fixedResp, requests >>
    /\ UNCHANGED renderVars

Next ==
    \/ \E body \in FixedResponses : FetchFulfilled(body)
    \/ FetchRejected
    \/ FetchFinally
    \/ \E m \in Months : SetLoanMonth(m)
    \/ applyLoanMonth
    \/ \E i \in 1..Len(requests) : \E resp \in LoanResponses : ApplyFulfilled(i, resp)
    \/ \E i \in 1..Len(requests) : ApplyRejected(i)
    \/ clearLoanMonth

Spec == Init /\ [][Next]_vars

\* a settled promise runs its finally callback
FairSpec == Spec /\ WF_vars(FetchFinally)

(***************************************************************************)
(* The renderer and the chart mappers on arbitrary rows: one panel of App  *)
(* is rendered on rows drawn from the values a report field can hold.      *)
(***************************************************************************)
Reports == {"loan", "poultry", "grants"}

BranchValues == {Undefined, Str(BranchA), Str(BranchATotal), Str(GrandTotalName)}
TypeValues == {Undefined, Str(<<>>), Str(TypeX)}
CountValues == {Undefined, Num(2)}
AmountValues == {Undefined, Num(600), Str(<<"5">>), Str(TypeX)}

RowsOf(report) ==
    CASE report = "loan" ->
            { LoanRow(b, ty, Num(2), a) :
                b \in BranchValues, ty \in TypeValues, a \in AmountValues }
      [] report = "poultry" ->
            { PoultryRow(b, Str(TypeX), c, a) :
                b \in BranchValues, c \in CountValues, a \in AmountValues }
      [] OTHER ->
            { GrantsRow(b, c, a) :
                b \in BranchValues, c \in CountValues, a \in AmountValues }

RowSeqs(report) == UNION { [1..n -> RowsOf(report)] : n \in 0..MaxRows }

\* the panel App renders for a report, and the data of its chart
PanelOf(report, rows) ==
    CASE report = "loan" ->
            [ table |-> DataTable(JsArray(rows), LoanColumns, Undefined, FALSE),
              chart |-> LoanChartData(rows) ]
      [] report = "poultry" ->
            [ table |-> DataTable(JsArray(rows), PoultryColumns, Undefined, TRUE),
              chart |-> BirdsChartData(rows) ]
      [] OTHER ->
            [ table |-> DataTable(JsArray(rows), GrantsColumns, Undefined, TRUE),
              chart |-> GrantsChartData(rows) ]

ColumnsOf(report) ==
    CASE report = "loan" -> LoanColumns
      [] report = "poultry" -> PoultryColumns
      [] OTHER -> GrantsColumns

RenderInit ==
    /\ AppInit
    /\ tReport \in Reports
    /\ tRows \in RowSeqs(tReport)
    /\ tOut = NoOut
    /\ tPc = "input"

RenderPanel ==
    /\ tPc = "input"
    /\ tOut' = PanelOf(tReport, tRows)
    /\ tPc' = "rendered"
    /\ UNCHANGED << tReport, tRows >>
    /\ UNCHANGED appVars

RenderNext == RenderPanel

RenderSpec == RenderInit /\ [][RenderNext]_vars

(***************************************************************************)
(* Properties of the renderer and the chart mappers (RenderSpec).          *)
(***************************************************************************)
\* the number a value stands for in a total: a number is itself, a string
\* of digits its value, anything else (missing, text) 0
NumberOrZero(v) ==
    IF v.t = "number" THEN v.n
    ELSE IF v.t = "string" /\ \A i \in 1..Len(v.s) : IsDigit(v.s[i]) THEN DigitsVal(v.s)
    ELSE 0

\* the sum of a column over all rows
RECURSIVE SumOf(_, _)
SumOf(rows, key) ==
    IF Len(rows) = 0 THEN 0
    ELSE SumOf(SubSeq(rows, 1, Len(rows) - 1), key) + NumberOrZero(Get(rows[Len(rows)], key))

\* the number a displayed cell reads as: its digits, separators dropped;
\* -1 when the cell shows no number
ShownNumber(cell) ==
    LET IsDigitChar(c) == IsDigit(c)
    IN  IF /\ cell.t = "string"
           /\ Len(cell.s) > 0
           /\ \A i \in 1..Len(cell.s) : IsDigit(cell.s[i]) \/ cell.s[i] = ","
        THEN DigitsVal(SelectSeq(cell.s, IsDigitChar))
        ELSE -1

\* the footer is enabled for the poultry and grants panels
FooterEnabled == tReport \in {"poultry", "grants"}

\* C2 as stated: for every non-empty row sequence rendered with the totals
\* footer enabled and every summable column, the footer shows the sum of the
\* column over all rows (missing and non-numeric values counting 0),
\* whatever the type of the value in the first row.
C2_FooterTotalAnyFirstRow ==
    (tPc = "rendered" /\ FooterEnabled /\ Len(tRows) > 0) =>
        \A i \in 1..Len(ColumnsOf(tReport)) :
            ColumnsOf(tReport)[i].total =>
                /\ tOut.table.foot.present
                /\ ShownNumber(tOut.table.foot.cells[i])
                     = SumOf(tRows, ColumnsOf(tReport)[i].key)

\* C2 amended: for every non-empty row sequence rendered with the totals
\* footer enabled and every summable column whose value in the first row is
\* of type number, the footer is present and shows the sum of the column over
\* all rows, missing and non-numeric values counting 0.
C2_FooterTotal ==
    (tPc = "rendered" /\ FooterEnabled /\ Len(tRows) > 0) =>
        \A i \in 1..Len(ColumnsOf(tReport)) :
            (/\ ColumnsOf(tReport)[i].total
             /\ Get(tRows[1], ColumnsOf(tReport)[i].key).t = "number") =>
                /\ tOut.table.foot.present
                /\ ShownNumber(tOut.table.foot.cells[i])
                     = SumOf(tRows, ColumnsOf(tReport)[i].key)

\* C2 witness: a poultry table whose bird counts are the number 600 and the
\* numeric string "5" shows 605 in the footer.
C2_Witness ==
    /\ tPc = "rendered"
    /\ tReport = "poultry"
    /\ Len(tRows) = 2
    /\ Get(tRows[1], "# of Birds") = Num(600)
    /\ Get(tRows[2], "# of Birds") = Str(<<"5">>)
    /\ tOut.table.foot.present
    /\ tOut.table.foot.cells[5] = Str(<<"6", "0", "5">>)

\* a field value that is a string ending in " Total"
IsTotalName(b) == b.t = "string" /\ EndsWith(b.s, SpaceTotal)

\* C3 as stated: a rendered row has the grand-total marker (grand-total
\* background and bold weight) exactly when its Branch Name is "Grand Total",
\* the subtotal marker (subtotal background) exactly when its Branch Name
\* ends with " Total" and is not "Grand Total", and no row has both.
C3_RowMarkers ==
    tPc = "rendered" =>
        \A i \in 1..Len(tRows) :
            LET b == Get(tRows[i], "Branch Name")
                style == tOut.table.body[i].style
                grand == style.background = "#dcfce7" /\ style.fontWeight = "800"
                subtotal == style.background = "#fffbe6"
            IN  /\ grand <=> (b = Str(GrandTotalName))
                /\ subtotal <=> (IsTotalName(b) /\ b /= Str(GrandTotalName))
                /\ ~(grand /\ subtotal)

\* the filter a report's chart applies to a row
PassesFilter(report, r) ==
    LET b == Get(r, "Branch Name")
        ty == Get(r, "Types of Loan")
    IN  IF report = "loan"
        THEN /\ b /= Str(GrandTotalName)
             /\ ~IsTotalName(b)
             /\ ty.t = "string" /\ Len(ty.s) > 0
        ELSE b /= Str(GrandTotalName)

\* the field a report's chart plots
ValueKey(report) ==
    CASE report = "loan" -> "Amount of Loan"
      [] report = "poultry" -> "# of Birds"
      [] OTHER -> "Amounts of Grants"

\* the j-th smallest element of a set of indices
NthOf(S, j) == CHOOSE i \in S : Cardinality({k \in S : k < i}) = j - 1

\* C4: the chart data of a report is the order-preserving projection of the
\* rows that pass the report's filter (poultry, grants: Branch Name is not
\* "Grand Total"; loan: also not ending in " Total", and the loan type present
\* and non-empty); each tuple carries the row's branch and a numeric value
\* that is 0 when the row's numeric field is missing; no tuple is a
\* "Grand Total" row.
C4_ChartProjection ==
    tPc = "rendered" =>
        LET kept == { i \in 1..Len(tRows) : PassesFilter(tReport, tRows[i]) }
            chart == tOut.chart
        IN  /\ Len(chart) = Cardinality(kept)
            /\ \A j \in 1..Len(chart) :
                   LET r == tRows[NthOf(kept, j)]
                       v == Get(r, ValueKey(tReport))
                   IN  /\ chart[j].branch = Get(r, "Branch Name")
                       /\ chart[j].branch /= Str(GrandTotalName)
                       /\ IsNumber(chart[j].value)
                       /\ v.t = "undefined" => chart[j].value = Num(0)
                       /\ v.t = "number" => chart[j].value = v

\* C4 witness: a loan chart on a subtotal row followed by a branch row with
\* no amount holds the one point of the branch, with value 0.
C4_Witness ==
    /\ tPc = "rendered"
    /\ tReport = "loan"
    /\ Len(tRows) = 2
    /\ Get(tRows[1], "Branch Name") = Str(BranchATotal)
    /\ Truthy(Get(tRows[1], "Types of Loan"))
    /\ Get(tRows[2], "Amount of Loan") = Undefined
    /\ tOut.chart = << [branch |-> Str(BranchA), type |-> Str(TypeX), value |-> Num(0)] >>

(***************************************************************************)
(* Properties of the loader and the month filter (Spec, FairSpec).         *)
(***************************************************************************)
\* the loan rows /reports/fixed delivered: the initial empty sequence when
\* the request failed
FetchedLoan == IF fixedFetch = "fulfilled" THEN fixedResp.loan ELSE JsArray(<<>>)

\* the loan panel and chart as rendered from given rows, without subtitle
LoanPanelShows(rows) ==
    /\ Screen = "panels"
    /\ Panels.loan = DataTable(rows, LoanColumns, Panels.loan.subtitle, FALSE)
    /\ Panels.loanChart = LoanChartData(rows.a)

\* C1 as stated: once clear has run, and until the month filter is used
\* again, the month selector is empty, the override absent, the label empty
\* and the loan panel shows the originally fetched fixed loan rows, also
\* when responses of earlier apply calls are still outstanding.
C1_ClearRestores ==
    cleared =>
        /\ loanMonth = <<>>
        /\ loanCustomRows = NullArray
        /\ loanMonthLabel = <<>>
        /\ LoanPanelShows(FetchedLoan)
        /\ Panels.loan.subtitle = Undefined

\* C5 as stated: until /reports/fixed completes, loading is true and the
\* loading placeholder is all that is rendered; once it has completed with a
\* JSON object, loading is false, each dataset holds the response's array
\* for its key, or the empty sequence when the response omits the key, and
\* the panels are rendered.
C5_LoaderStoresDatasets ==
    /\ fixedFetch = "pending" => (loading /\ Screen = "Loading...")
    /\ (fixedFetch = "fulfilled" /\ ~loading) =>
          /\ \A k \in {"loan", "poultry", "grants"} :
                 data[k] = IF IsArray(fixedResp[k]) THEN fixedResp[k] ELSE JsArray(<<>>)
          /\ Screen = "panels"

\* C6: processing the failure of an apply request sets the override to
\* absent and the label to empty, whatever was displayed before, so that the
\* loan panel shows the fixed loan dataset with no subtitle; the month
\* selector and the fixed datasets are left unchanged.
C6_FailureReverts ==
    [][ (\E i \in 1..Len(requests) :
            requests[i].status = "pending" /\ requests'[i].status = "rejected")
        => /\ loanCustomRows' = NullArray
           /\ loanMonthLabel' = <<>>
           /\ loanMonth' = loanMonth
           /\ data' = data
           /\ Screen' = "panels"
           /\ LoanPanel' = DataTable(data.loan, LoanColumns, Undefined, FALSE)
           /\ LoanChart' = LoanChartData(data.loan.a) ]_vars

\* C6 witness: the second request failed after the first had put the May
\* rows on display; the panel is back on the fixed rows.
C6_Witness ==
    /\ Len(requests) = 2
    /\ requests[1].status = "fulfilled"
    /\ requests[1].resp.rows = JsArray(MayLoanRows)
    /\ requests[2].status = "rejected"
    /\ lastEvt.kind = "rejected" /\ lastEvt.id = 2
    /\ loanCustomRows = NullArray
    /\ data.loan = JsArray(FixedLoanRows)
    /\ Panels.loan = DataTable(JsArray(FixedLoanRows), LoanColumns, Undefined, FALSE)

\* C7: once the load is over, the rows of the loan table and chart are
\* exactly one of two sequences: with an override present, the rows of the
\* last successful apply response processed (the empty sequence when it
\* omitted rows, shown as "No data"); without one, the fixed loan dataset.
C7_OneDatasetShown ==
    Screen = "panels" =>
        IF IsArray(loanCustomRows)
        THEN /\ lastEvt.kind = "fulfilled"
             /\ IF IsArray(lastEvt.resp.rows)
                THEN LoanPanelShows(lastEvt.resp.rows)
                ELSE LoanPanelShows(JsArray(<<>>)) /\ Panels.loan.kind = "No data"
        ELSE LoanPanelShows(FetchedLoan)

\* C7 witness: over non-empty fixed rows, a response without rows is on
\* display as an empty override.
C7_Witness ==
    /\ Screen = "panels"
    /\ data.loan = JsArray(FixedLoanRows)
    /\ lastEvt.kind = "fulfilled"
    /\ lastEvt.resp.rows = NoArray
    /\ loanCustomRows = JsArray(<<>>)
    /\ Panels.loan.kind = "No data"
    /\ Panels.loanChart = <<>>

\* C8 as stated: in every reachable state the screen is the loading
\* placeholder or the panels, each panel a "No data" placeholder or a table;
\* no render raises a fatal error.
C8_AlwaysRenders ==
    /\ Screen \in {"Loading...", "panels"}
    /\ Screen = "panels" =>
          \A p \in {"loan", "poultry", "grants"} : Panels[p].kind \in {"No data", "table"}

\* C9: the response of every request is processed when it arrives and
\* overwrites the override and the label, also when a later request has been
\* issued or already answered.
C9_EveryResponseOverwrites ==
    [][ \A i \in 1..Len(requests) :
            (requests[i].status = "pending" /\ requests'[i].status = "fulfilled") =>
                /\ loanCustomRows' =
                       (IF IsArray(requests'[i].resp.rows) THEN requests'[i].resp.rows
                        ELSE JsArray(<<>>))
                /\ loanMonthLabel' =
                       (IF requests'[i].resp.month_label.t = "string"
                        THEN requests'[i].resp.month_label.s ELSE <<>>) ]_vars

\* C9 witness: both requests are answered, and the rows and label on display
\* are those of the first, processed after the second.
C9_Witness ==
    /\ Len(requests) = 2
    /\ requests[1].status = "fulfilled"
    /\ requests[2].status = "fulfilled"
    /\ requests[1].resp = [rows |-> JsArray(MayLoanRows), month_label |-> Str(May2024)]
    /\ requests[2].resp = [rows |-> JsArray(JuneLoanRows), month_label |-> Str(Jun2024)]
    /\ lastEvt.id = 1
    /\ loanCustomRows = JsArray(MayLoanRows)
    /\ loanMonthLabel = May2024

\* C10: once /reports/fixed has settled, fulfilled or rejected, loading
\* becomes false, and it never becomes true again; after a rejection the
\* datasets are the initial empty sequences and the screen shows the panels,
\* "No data" in place of each table.
C10_LoadingEnds ==
    /\ (fixedFetch /= "pending") ~> (~loading)
    /\ [][ ~loading => ~loading' ]_vars
    /\ [](fixedFetch = "rejected" /\ ~loading =>
            /\ \A k \in {"loan", "poultry", "grants"} : data[k] = JsArray(<<>>)
            /\ Screen = "panels"
            /\ Panels.poultry.kind = "No data"
            /\ Panels.grants.kind = "No data"
            /\ loanCustomRows = NullArray => Panels.loan.kind = "No data")

\* C10 witness: the request was rejected and the three placeholders are on
\* the screen.
C10_Witness ==
    /\ fixedFetch = "rejected"
    /\ ~loading
    /\ Screen = "panels"
    /\ loanCustomRows = NullArray
    /\ Panels.loan.kind = "No data"
    /\ Panels.poultry.kind = "No data"
    /\ Panels.grants.kind = "No data"

=============================================================================
